---------------------------- MODULE Spec2Model ----------------------------
(***************************************************************************)
(* A model of githubparser.py: the CODEOWNERS analyzer of a GitHub         *)
(* organization.  The batch (main) validates its flags, pages through the  *)
(* organization's repository listing (get_repositories), probes the three  *)
(* CODEOWNERS locations of every kept repository (get_codeowners_content), *)
(* extracts the primary owner (parse_primary_codeowner), assembles one     *)
(* record per repository (analyze_repositories) and writes the report      *)
(* (save_to_csv).  Text is a sequence of one-character strings; an         *)
(* Optional value is a sequence of length 0 (None) or 1.                   *)
(***************************************************************************)
EXTENDS Integers, Sequences, FiniteSets, TLC

VARIABLES
    args,           \* the parsed command line: [all, public, private, archived]
    token,          \* whether a token is given (--token or GITHUB_TOKEN)
    include,        \* [public, private, archived]: get_repositories' parameters
    listing,        \* the server: the listing's responses, page by page
    tree,           \* the server: the answers of the contents endpoint
    pc,             \* the position of the program
    page,           \* get_repositories: the page counter
    repositories,   \* get_repositories: the accumulated kept entries
    fetched,        \* history: the entries of every page answered with 200
    requested,      \* history: the listing page numbers requested, in order
    calls,          \* history: the API calls of get_repositories, in order
    i,              \* analyze_repositories: the 1-based position in the loop
    loc,            \* get_codeowners_content: the index of the next location
    probes,         \* history: the locations probed for the current repository
    found,          \* (codeowners_content, codeowners_location) of the locator
    results,        \* analyze_repositories: the records
    guardedAt,      \* history: <<position, probes made>> of the loop's guard calls
    lastWait,       \* check_rate_limit: the seconds slept by the last call
    csvfile,        \* the output file: None, or <<the lines written>>
    error,          \* the call whose exception ended the batch, "" when none
    content,        \* parse_primary_codeowner: its argument
    owner           \* parse_primary_codeowner: its result

vars == <<args, token, include, listing, tree, pc, page, repositories, fetched,
          requested, calls, i, loc, probes, found, results, guardedAt,
          lastWait, csvfile, error, content, owner>>

---------------------------------------------------------------------------
(* Bounds of the model. *)

\* The longest content handed to the parser on its own.
MaxContentLen == 5
\* The number of full (per_page entries) pages the server holds at most.
MaxPages == 1
\* The longest last page whose entries take every combination of flags.
MaxShort == 2
\* The longest repository list handed to analyze_repositories on its own.
MaxRepos == 2

---------------------------------------------------------------------------
(* Python values and string methods. *)

None == <<>>
Some(v) == <<v>>

\* The characters str.strip() and str.split() treat as whitespace.
Whitespace == {" ", "\t", "\n", "\r", "\f"}

RECURSIVE lstrip(_)
lstrip(s) ==
    IF s # <<>> /\ Head(s) \in Whitespace THEN lstrip(Tail(s)) ELSE s

RECURSIVE rstrip(_)
rstrip(s) ==
    IF s # <<>> /\ s[Len(s)] \in Whitespace
    THEN rstrip(SubSeq(s, 1, Len(s) - 1))
    ELSE s

\* str.strip()
strip(s) == rstrip(lstrip(s))

\* str.split(sep) for a one-character separator: never an empty list.
RECURSIVE splitOn(_, _, _)
splitOn(s, sep, cur) ==
    IF s = <<>> THEN <<cur>>
    ELSE IF Head(s) = sep THEN <<cur>> \o splitOn(Tail(s), sep, <<>>)
    ELSE splitOn(Tail(s), sep, Append(cur, Head(s)))

\* str.split() without argument: the maximal runs of non-whitespace.
RECURSIVE split(_, _)
split(s, cur) ==
    IF s = <<>> THEN (IF cur = <<>> THEN <<>> ELSE <<cur>>)
    ELSE IF Head(s) \in Whitespace
         THEN (IF cur = <<>> THEN <<>> ELSE <<cur>>) \o split(Tail(s), <<>>)
         ELSE split(Tail(s), Append(cur, Head(s)))

\* str.startswith(c) for a one-character prefix.
startswith(s, c) == s # <<>> /\ Head(s) = c

---------------------------------------------------------------------------
(* parse_primary_codeowner *)

\* One pass of the loop body on a stripped line: Some(owner) when the line
\* returns, None when the loop goes on to the next line.
ParseLine(line) ==
    LET parts == split(line, <<>>) IN
    IF line = <<>> \/ startswith(line, "#") THEN None
    ELSE IF startswith(line, "@") /\ Len(parts) = 1 THEN Some(Tail(line))
    ELSE IF Len(parts) >= 2
         THEN LET primary_owner == parts[2] IN
              Some(IF startswith(primary_owner, "@")
                   THEN Tail(primary_owner) ELSE primary_owner)
    ELSE None

\* A last-match-wins loop: the last line that returns decides.
RECURSIVE ParseLinesLast(_)
ParseLinesLast(lines) ==
    IF lines = <<>> THEN None
    ELSE LET rest == ParseLinesLast(Tail(lines)) IN
         IF rest # None THEN rest ELSE ParseLine(strip(Head(lines)))

\* The for loop over the lines: the first line that returns decides.
RECURSIVE ParseLines(_)
ParseLines(lines) ==
    IF lines = <<>> THEN None
    ELSE LET r == ParseLine(strip(Head(lines))) IN
         IF r # None THEN r ELSE ParseLines(Tail(lines))

parse_primary_codeowner(c) ==
    IF c = <<>> THEN None
    ELSE ParseLines(splitOn(strip(c), "\n", <<>>))


---------------------------------------------------------------------------
(* The server: the quota endpoint, the listing endpoint, the contents     *)
(* endpoint.  A response that raises is a failed request (no HTTP status). *)

\* per_page of get_repositories: the page size asked of the listing.
per_page == 100
\* The loop of analyze_repositories calls the guard when i % 50 == 0.
RateEvery == 50
\* check_rate_limit: waits when fewer requests than this remain ...
RateThreshold == 10
\* ... until this many seconds after the reset.
RateMargin == 10

\* GET /rate_limit: remaining, and the reset time as seconds from now.
QuotaResponses ==
    {[raises |-> TRUE, status |-> 0, remaining |-> 0, resetIn |-> 0],
     [raises |-> FALSE, status |-> 403, remaining |-> 0, resetIn |-> 0]}
    \cup {[raises |-> FALSE, status |-> 200, remaining |-> rem, resetIn |-> rst] :
            rem \in {RateThreshold - 1, RateThreshold}, rst \in {-RateMargin, 50}}

\* A listing entry: private and archived are its flags, the name its rank
\* in the listing (sort=name), html_url follows the name.
Kinds == BOOLEAN \X BOOLEAN
Entry(n, kind) ==
    [name |-> n, html_url |-> <<n>>, private |-> kind[1], archived |-> kind[2]]

\* Page p of the listing with len entries, their kinds following pat.
ListPage(p, len, pat) ==
    [k \in 1..len |-> Entry((p - 1) * per_page + k, pat[((k - 1) % Len(pat)) + 1])]

ListOk(data) == [raises |-> FALSE, status |-> 200, data |-> data]
ListError(st) == [raises |-> FALSE, status |-> st, data |-> <<>>]
ListRaise == [raises |-> TRUE, status |-> 0, data |-> <<>>]

\* All sequences over S of length 0..n.
RECURSIVE SeqsUpTo(_, _)
SeqsUpTo(S, n) ==
    IF n = 0 THEN {<<>>}
    ELSE LET shorter == SeqsUpTo(S, n - 1) IN
         shorter \cup {Append(s, x) : s \in {t \in shorter : Len(t) = n - 1}, x \in S}

\* The listings of an organization: k full pages, their kinds following
\* the patterns of full, then a last response: a page shorter than per_page
\* (entry by entry, or one entry short of full), an error status, or a
\* failed request.  The API returns at most per_page entries a page.
LastResponses(p, nearFull, lastPats) ==
    {ListOk(ListPage(p, Len(pat), pat)) : pat \in lastPats}
    \cup {ListOk(ListPage(p, per_page - 1, pat)) : pat \in nearFull}
    \cup {ListError(500), ListError(403), ListRaise}

Listings(k, patterns, nearFull, lastPats) ==
    {[q \in 1..(k + 1) |->
        IF q <= k THEN ListOk(ListPage(q, per_page, full[q])) ELSE last] :
       full \in [1..k -> patterns], last \in LastResponses(k + 1, nearFull, lastPats)}

AllListings(patterns, nearFull, lastPats) ==
    UNION {Listings(k, patterns, nearFull, lastPats) : k \in 0..MaxPages}

\* Past its last page the listing is empty.
ServerPage(p) == IF p <= Len(listing) THEN listing[p] ELSE ListOk(<<>>)

\* GET /repos/{org}/{repo}/contents/{location}: the content field is base64
\* text, here a sequence of 4-character groups and line breaks.
FileOk(payload) == [raises |-> FALSE, status |-> 200, content |-> payload]
FileError(st) == [raises |-> FALSE, status |-> st, content |-> <<>>]
FileRaise == [raises |-> TRUE, status |-> 0, content |-> <<>>]

PayloadRule == <<"KiBA", "\n", "YQoj">>
PayloadTeam == <<"QGIK">>
PayloadComment == <<"IyBj", "\n">>
PayloadBlank == <<"\n">>
PayloadNotUtf8 == <<"gICA">>

FilePayloads ==
    {<<>>, PayloadBlank, PayloadRule, PayloadTeam, PayloadComment, PayloadNotUtf8}

FileResponses ==
    {FileRaise, FileError(404), FileError(500)} \cup {FileOk(b) : b \in FilePayloads}

\* The answers of the repository's three locations.
TreeOf(repo) == tree[((repo.name - 1) % Len(tree)) + 1]

---------------------------------------------------------------------------
(* base64.b64decode(...).decode("utf-8") *)

\* The three bytes of a 4-character base64 group.
b64group(g) ==
    CASE g = "KiBA" -> <<42, 32, 64>>
      [] g = "YQoj" -> <<97, 10, 35>>
      [] g = "QGIK" -> <<64, 98, 10>>
      [] g = "IyBj" -> <<35, 32, 99>>
      [] g = "gICA" -> <<128, 128, 128>>

\* b64decode discards the characters outside the base64 alphabet.
RECURSIVE b64decode(_)
b64decode(payload) ==
    IF payload = <<>> THEN <<>>
    ELSE IF Head(payload) = "\n" THEN b64decode(Tail(payload))
    ELSE b64group(Head(payload)) \o b64decode(Tail(payload))

chr(b) ==
    CASE b = 10 -> "\n" [] b = 32 -> " " [] b = 35 -> "#" [] b = 42 -> "*"
      [] b = 64 -> "@" [] b = 97 -> "a" [] b = 98 -> "b" [] b = 99 -> "c"

\* bytes.decode("utf-8") raises on a byte sequence that is not UTF-8; the
\* bytes of the model are ASCII or the lone continuation byte 0x80.
utf8valid(bytes) == \A k \in 1..Len(bytes) : bytes[k] < 128
utf8decode(bytes) == [k \in 1..Len(bytes) |-> chr(bytes[k])]


---------------------------------------------------------------------------
(* check_rate_limit *)

\* The seconds check_rate_limit sleeps on a response that did not raise.
check_rate_limit(response) ==
    IF response.status = 200
    THEN LET wait_time == response.resetIn + RateMargin IN
         IF response.remaining < RateThreshold /\ wait_time > 0
         THEN wait_time ELSE 0
    ELSE 0

\* A call of the guard that goes on at next: session.get raising leaves the
\* caller with the exception, which only main handles.
Guard(response, next) ==
    IF response.raises
    THEN /\ pc' = "failed"
         /\ error' = "rate_limit"
         /\ lastWait' = lastWait
    ELSE /\ pc' = next
         /\ error' = error
         /\ lastWait' = check_rate_limit(response)

---------------------------------------------------------------------------
(* get_repositories *)

\* A filter that lets include_archived decide alone for an archived entry.
KeepArchivedFirst(repo, inc) ==
    IF repo.archived THEN inc.archived
    ELSE IF repo.private /\ ~inc.private THEN FALSE
    ELSE IF ~repo.private /\ ~inc.public THEN FALSE
    ELSE TRUE

\* The three continue statements of the filter loop.
Keep(repo, inc) ==
    IF repo.archived /\ ~inc.archived THEN FALSE
    ELSE IF repo.private /\ ~inc.private THEN FALSE
    ELSE IF ~repo.private /\ ~inc.public THEN FALSE
    ELSE TRUE

\* for repo in data: ... filtered_repos.append(repo)
FilterRepos(data, inc) == SelectSeq(data, LAMBDA repo : Keep(repo, inc))

\* A failure that is retried: the loop goes round again on the same page.
ListFailureRetries(pg, repos) ==
    [pc |-> "list_guard", page |-> pg, repositories |-> repos]

\* if response.status_code != 200: ... break
ListFailure(pg, repos) == [pc |-> "listed", page |-> pg, repositories |-> repos]

\* A loop that goes on after every non-empty page.
ListAdvanceWhileNonEmpty(data, pg, repos) ==
    [pc |-> "list_guard", page |-> pg + 1, repositories |-> repos]

\* if len(data) < per_page: break, else page += 1
ListAdvance(data, pg, repos) ==
    IF Len(data) < per_page
    THEN [pc |-> "listed", page |-> pg, repositories |-> repos]
    ELSE [pc |-> "list_guard", page |-> pg + 1, repositories |-> repos]

\* The loop body after the guard, on a response that did not raise.
ListStep(response, pg, repos, inc) ==
    IF response.status # 200 THEN ListFailure(pg, repos)
    ELSE IF response.data = <<>>
         THEN [pc |-> "listed", page |-> pg, repositories |-> repos]
    ELSE ListAdvance(response.data, pg,
                     repos \o FilterRepos(response.data, inc))

ListGuard ==
    /\ pc = "list_guard"
    /\ \E response \in QuotaResponses : Guard(response, "list_fetch")
    /\ calls' = Append(calls, "rate_limit")
    /\ UNCHANGED <<args, token, include, listing, tree, page, repositories,
                   fetched, requested, i, loc, probes, found, results,
                   guardedAt, csvfile, content, owner>>

ListFetch ==
    /\ pc = "list_fetch"
    /\ LET response == ServerPage(page) IN
       /\ requested' = Append(requested, page)
       /\ calls' = Append(calls, "repos")
       /\ IF response.raises
          THEN /\ pc' = "failed"
               /\ error' = "repos"
               /\ UNCHANGED <<page, repositories, fetched>>
          ELSE LET to == ListStep(response, page, repositories, include) IN
               /\ pc' = to.pc
               /\ page' = to.page
               /\ repositories' = to.repositories
               /\ fetched' = IF response.status = 200
                             THEN fetched \o response.data ELSE fetched
               /\ error' = error
    /\ UNCHANGED <<args, token, include, listing, tree, i, loc, probes, found,
                   results, guardedAt, lastWait, csvfile, content, owner>>

---------------------------------------------------------------------------
(* get_codeowners_content *)

Locations == <<".github/CODEOWNERS", "CODEOWNERS", "docs/CODEOWNERS">>

\* One pass of the for loop: the request of Locations[loc].
Probe ==
    /\ pc = "locate"
    /\ LET response == TreeOf(repositories[i])[loc]
           bytes == b64decode(response.content)
       IN
       /\ probes' = Append(probes, Locations[loc])
       /\ IF response.raises
          THEN /\ pc' = "failed"
               /\ error' = "contents"
               /\ UNCHANGED <<loc, found>>
          ELSE IF response.status = 200 /\ response.content # <<>>
          THEN IF utf8valid(bytes)
               THEN /\ found' = <<Some(utf8decode(bytes)), Some(Locations[loc])>>
                    /\ pc' = "assemble"
                    /\ UNCHANGED <<loc, error>>
               ELSE /\ pc' = "failed"
                    /\ error' = "decode"
                    /\ UNCHANGED <<loc, found>>
          ELSE IF loc < Len(Locations)
          THEN /\ loc' = loc + 1
               /\ UNCHANGED <<pc, found, error>>
          ELSE /\ found' = <<None, None>>
               /\ pc' = "assemble"
               /\ UNCHANGED <<loc, error>>
    /\ UNCHANGED <<args, token, include, listing, tree, page, repositories,
                   fetched, requested, calls, i, results, guardedAt, lastWait,
                   csvfile, content, owner>>

---------------------------------------------------------------------------
(* analyze_repositories *)

NoCodeownersFile == <<"No CODEOWNERS file">>

\* The guard on a 0-based position (enumerate without its start).
RateDueZeroBased(n) == (n - 1) % RateEvery = 0

\* if i % 50 == 0: self.check_rate_limit()
RateDue(n) == n % RateEvery = 0

\* Where the loop goes on for position n of total.
LoopAt(n, total) ==
    IF n > total THEN "analyzed" ELSE IF RateDue(n) THEN "guard" ELSE "locate"

\* A record that keeps the locator's location whatever the content.
RecordKeepsLocation(repo, fnd) ==
    LET codeowners_content == fnd[1]
        truthy == codeowners_content # None /\ codeowners_content[1] # <<>>
        primary_owner == IF truthy
                         THEN parse_primary_codeowner(codeowners_content[1])
                         ELSE None
    IN [repository_url |-> repo.html_url,
        repository_name |-> repo.name,
        has_codeowner_file |-> truthy,
        codeowners_file_location |-> fnd[2],
        primary_owner |-> IF primary_owner = None \/ primary_owner[1] = <<>>
                          THEN NoCodeownersFile ELSE primary_owner[1]]

\* The record of a repository from what the locator returned.
Record(repo, fnd) ==
    LET codeowners_content == fnd[1]
        truthy == codeowners_content # None /\ codeowners_content[1] # <<>>
        primary_owner == IF truthy
                         THEN parse_primary_codeowner(codeowners_content[1])
                         ELSE None
    IN [repository_url |-> repo.html_url,
        repository_name |-> repo.name,
        has_codeowner_file |-> truthy,
        codeowners_file_location |-> IF truthy THEN fnd[2] ELSE None,
        primary_owner |-> IF primary_owner = None \/ primary_owner[1] = <<>>
                          THEN NoCodeownersFile ELSE primary_owner[1]]

LoopGuard ==
    /\ pc = "guard"
    /\ \E response \in QuotaResponses : Guard(response, "locate")
    /\ guardedAt' = guardedAt \cup {<<i, Len(probes)>>}
    /\ UNCHANGED <<args, token, include, listing, tree, page, repositories,
                   fetched, requested, calls, i, loc, probes, found, results,
                   csvfile, content, owner>>

\* The rest of the loop body once the locator has returned.
Assemble ==
    /\ pc = "assemble"
    /\ results' = Append(results, Record(repositories[i], found))
    /\ i' = i + 1
    /\ loc' = 1
    /\ probes' = <<>>
    /\ found' = <<None, None>>
    /\ pc' = LoopAt(i + 1, Len(repositories))
    /\ UNCHANGED <<args, token, include, listing, tree, page, repositories,
                   fetched, requested, calls, guardedAt, lastWait, csvfile,
                   error, content, owner>>

---------------------------------------------------------------------------
(* save_to_csv *)

fieldnames == <<"repository_url", "repository_name", "has_codeowner_file",
                "codeowners_file_location", "primary_owner">>

Row(r) == <<r.repository_url, r.repository_name, r.has_codeowner_file,
            r.codeowners_file_location, r.primary_owner>>

\* open(filename, "w"): the file exists, empty, from here on.
SaveOpen ==
    /\ pc = "analyzed"
    /\ csvfile' = Some(<<>>)
    /\ pc' = "save_header"
    /\ UNCHANGED <<args, token, include, listing, tree, page, repositories,
                   fetched, requested, calls, i, loc, probes, found, results,
                   guardedAt, lastWait, error, content, owner>>

SaveHeader ==
    /\ pc = "save_header"
    /\ csvfile' = Some(<<fieldnames>>)
    /\ pc' = "save_rows"
    /\ UNCHANGED <<args, token, include, listing, tree, page, repositories,
                   fetched, requested, calls, i, loc, probes, found, results,
                   guardedAt, lastWait, error, content, owner>>

\* writer.writerows(results), a row at a time.
SaveRow ==
    /\ pc = "save_rows"
    /\ LET written == Len(csvfile[1]) - 1 IN
       IF written < Len(results)
       THEN /\ csvfile' = Some(Append(csvfile[1], Row(results[written + 1])))
            /\ pc' = pc
       ELSE /\ pc' = "done"
            /\ csvfile' = csvfile
    /\ UNCHANGED <<args, token, include, listing, tree, page, repositories,
                   fetched, requested, calls, i, loc, probes, found, results,
                   guardedAt, lastWait, error, content, owner>>

---------------------------------------------------------------------------
(* main *)

\* The flag validation and the token check: whether main goes on.
ArgsValid(a) ==
    /\ a.all \/ a.public \/ a.private \/ a.archived
    /\ ~(a.all /\ (a.public \/ a.private \/ a.archived))

\* include_public, include_private, include_archived
IncludeOf(a) ==
    IF a.all
    THEN [public |-> TRUE, private |-> TRUE, archived |-> TRUE]
    ELSE [public |-> a.public, private |-> a.private, archived |-> a.archived]

Main ==
    /\ pc = "main"
    /\ IF ArgsValid(args) /\ token
       THEN /\ include' = IncludeOf(args)
            /\ pc' = "list_guard"
       ELSE /\ pc' = "exit"
            /\ include' = include
    /\ UNCHANGED <<args, token, listing, tree, page, repositories, fetched,
                   requested, calls, i, loc, probes, found, results,
                   guardedAt, lastWait, csvfile, error, content, owner>>

\* if not repositories: return, else analyze_repositories(repositories)
MainListed ==
    /\ pc = "listed"
    /\ pc' = IF repositories = <<>> THEN "exit"
             ELSE LoopAt(1, Len(repositories))
    /\ UNCHANGED <<args, token, include, listing, tree, page, repositories,
                   fetched, requested, calls, i, loc, probes, found, results,
                   guardedAt, lastWait, csvfile, error, content, owner>>

Terminal == {"exit", "done", "failed", "cancelled"}

\* except KeyboardInterrupt: the interrupt may arrive at any point.
Interrupt ==
    /\ pc \notin Terminal
    /\ pc' = "cancelled"
    /\ UNCHANGED <<args, token, include, listing, tree, page, repositories,
                   fetched, requested, calls, i, loc, probes, found, results,
                   guardedAt, lastWait, csvfile, error, content, owner>>

---------------------------------------------------------------------------
(* The parser on its own. *)

ParseCall ==
    /\ pc = "parse"
    /\ owner' = parse_primary_codeowner(content)
    /\ pc' = "parsed"
    /\ UNCHANGED <<args, token, include, listing, tree, page, repositories,
                   fetched, requested, calls, i, loc, probes, found, results,
                   guardedAt, lastWait, csvfile, error, content>>


---------------------------------------------------------------------------
(* The specifications. *)

\* The state before any call.
Idle ==
    /\ page = 1 /\ repositories = <<>> /\ fetched = <<>> /\ requested = <<>>
    /\ calls = <<>> /\ i = 1 /\ loc = 1 /\ probes = <<>>
    /\ found = <<None, None>> /\ results = <<>> /\ guardedAt = {}
    /\ lastWait = 0 /\ csvfile = None /\ error = "" /\ owner = None

Public == <<FALSE, FALSE>>
Private == <<TRUE, FALSE>>
PublicArchived == <<FALSE, TRUE>>
PrivateArchived == <<TRUE, TRUE>>

\* The answers of three repositories: a rule file in .github and a team
\* file at the root; no file anywhere; an empty content field at the root
\* and a comment-only file in docs.
FilesGithub == <<FileOk(PayloadRule), FileOk(PayloadTeam), FileError(404)>>
FilesNone == <<FileError(404), FileError(404), FileError(404)>>
FilesDocs == <<FileError(404), FileOk(<<>>), FileOk(PayloadComment)>>
FilesBroken == <<FileError(404), FileRaise, FileError(404)>>

\* The organizations of the batch runs.
BatchTrees == {<<FilesGithub, FilesNone, FilesDocs>>, <<FilesNone, FilesBroken>>}
BatchListings ==
    AllListings({<<Public, Private, PublicArchived, PrivateArchived>>}, {},
                {<<>>, <<PublicArchived, Private>>})

\* The batch: main from the command line on.
Init ==
    /\ args \in [all : BOOLEAN, public : BOOLEAN, private : BOOLEAN,
                 archived : BOOLEAN]
    /\ token \in BOOLEAN
    /\ include = [public |-> TRUE, private |-> TRUE, archived |-> TRUE]
    /\ listing \in BatchListings
    /\ tree \in BatchTrees
    /\ pc = "main"
    /\ content = <<>>
    /\ Idle

Next ==
    \/ Main
    \/ ListGuard
    \/ ListFetch
    \/ MainListed
    \/ LoopGuard
    \/ Probe
    \/ Assemble
    \/ SaveOpen
    \/ SaveHeader
    \/ SaveRow
    \/ Interrupt

Spec == Init /\ [][Next]_vars

NoArgs == [all |-> TRUE, public |-> FALSE, private |-> FALSE, archived |-> FALSE]

\* parse_primary_codeowner on every content of up to MaxContentLen characters.
ParseAlphabet == {" ", "\n", "#", "@", "a", "b"}

InitParse ==
    /\ args = NoArgs /\ token = TRUE
    /\ include = [public |-> TRUE, private |-> TRUE, archived |-> TRUE]
    /\ listing = <<>> /\ tree = <<>>
    /\ pc = "parse"
    /\ content \in SeqsUpTo(ParseAlphabet, MaxContentLen)
    /\ Idle

NextParse == ParseCall

SpecParse == InitParse /\ [][NextParse]_vars

\* get_repositories with every filter triple on every listing of up to
\* MaxPages full pages and a last page of up to MaxShort entries.
ListPatterns ==
    {<<Public, Private, PublicArchived, PrivateArchived>>, <<PrivateArchived, Public>>}

InitList ==
    /\ args = NoArgs /\ token = TRUE
    /\ include \in [public : BOOLEAN, private : BOOLEAN, archived : BOOLEAN]
    /\ listing \in AllListings(ListPatterns, ListPatterns, SeqsUpTo(Kinds, MaxShort))
    /\ tree = <<>>
    /\ pc = "list_guard"
    /\ content = <<>>
    /\ Idle

NextList ==
    \/ ListGuard
    \/ ListFetch

SpecList == InitList /\ [][NextList]_vars

\* analyze_repositories on up to MaxRepos repositories, with every
\* combination of answers of the three locations.
InitAnalyze ==
    /\ args = NoArgs /\ token = TRUE
    /\ include = [public |-> TRUE, private |-> TRUE, archived |-> TRUE]
    /\ listing = <<>>
    /\ tree \in {<<files>> : files \in [1..Len(Locations) -> FileResponses]}
    /\ pc = "locate"
    /\ content = <<>>
    /\ \E n \in 1..MaxRepos :
         /\ page = 1 /\ repositories = ListPage(1, n, <<Public>>)
         /\ fetched = <<>> /\ requested = <<>>
         /\ calls = <<>> /\ i = 1 /\ loc = 1 /\ probes = <<>>
         /\ found = <<None, None>> /\ results = <<>> /\ guardedAt = {}
         /\ lastWait = 0 /\ csvfile = None /\ error = "" /\ owner = None

NextAnalyze ==
    \/ Probe
    \/ Assemble

SpecAnalyze == InitAnalyze /\ [][NextAnalyze]_vars


---------------------------------------------------------------------------
(* The parser's policy, stated on the positions of the content. *)

\* The positions where a token (a maximal run of non-whitespace) starts.
TokenStarts(c) ==
    {a \in 1..Len(c) : c[a] \notin Whitespace /\ (a = 1 \/ c[a - 1] \in Whitespace)}

\* The token that starts at position a.
TokenAt(c, a) ==
    LET b == CHOOSE e \in a..Len(c) :
                 /\ \A j \in a..e : c[j] \notin Whitespace
                 /\ (e = Len(c) \/ c[e + 1] \in Whitespace)
    IN SubSeq(c, a, b)

\* The number of the line position a lies on, counting from 1.
LineNo(c, a) == 1 + Cardinality({j \in 1..(a - 1) : c[j] = "\n"})

\* The starts of the tokens of line n, and the k-th of them.
LineTokens(c, n) == {a \in TokenStarts(c) : LineNo(c, a) = n}
NthToken(c, n, k) ==
    TokenAt(c, CHOOSE a \in LineTokens(c, n) :
                   Cardinality({x \in LineTokens(c, n) : x <= a}) = k)

\* A line is skipped when it is empty after trimming, starts with '#', or
\* is a single token that does not begin with '@'.
Qualifies(c, n) ==
    /\ LineTokens(c, n) # {}
    /\ Head(NthToken(c, n, 1)) # "#"
    /\ ~(Cardinality(LineTokens(c, n)) = 1 /\ Head(NthToken(c, n, 1)) # "@")

StripAt(tok) == IF Head(tok) = "@" THEN Tail(tok) ELSE tok

\* What a qualifying line decides.
Decides(c, n) ==
    IF Cardinality(LineTokens(c, n)) = 1
    THEN Tail(NthToken(c, n, 1))
    ELSE StripAt(NthToken(c, n, 2))

QualifyingLines(c) == {n \in 1..(Len(c) + 1) : Qualifies(c, n)}

FirstQualifyingRule(c) ==
    IF QualifyingLines(c) = {} THEN None
    ELSE Some(Decides(c, CHOOSE n \in QualifyingLines(c) :
                             \A m \in QualifyingLines(c) : n <= m))

\* C2: parse_primary_codeowner returns what the first qualifying line of the
\* content decides (the lone '@'-token without its '@', else the second
\* token with one leading '@' stripped), whatever the later lines hold, and
\* None when every line is skipped.
C2_FirstQualifyingRuleWins ==
    pc = "parsed" => owner = FirstQualifyingRule(content)

\* C2's case: two qualifying lines that decide differently, after a skipped
\* line or not; the first has decided.
C2_Witness ==
    /\ pc = "parsed"
    /\ \E n, m \in QualifyingLines(content) :
         /\ n < m
         /\ Decides(content, n) # Decides(content, m)
         /\ owner = Some(Decides(content, n))


---------------------------------------------------------------------------
(* get_repositories: the filter and the pagination. *)

\* An entry is kept iff all three implications hold.
Kept(e) ==
    /\ e.archived => include.archived
    /\ e.private => include.private
    /\ ~e.private => include.public

\* The listing page p answered with a page of entries.
PageOk(p) == ~ServerPage(p).raises /\ ServerPage(p).status = 200
\* The listing page p answered with an error status.
PageError(p) == ~ServerPage(p).raises /\ ServerPage(p).status # 200

\* The entries of the pages 1..p, as a set.
EntriesUpTo(p) ==
    UNION {{ServerPage(q).data[k] : k \in 1..Len(ServerPage(q).data)} : q \in 1..p}

Elements(seq) == {seq[k] : k \in 1..Len(seq)}

\* The names of seq rise strictly: the listing's order, nothing twice.
InListingOrder(seq) ==
    \A k \in 1..(Len(seq) - 1) : seq[k].name < seq[k + 1].name

\* C3: the accumulated result is the subsequence of the fetched entries,
\* in listing order, that pass all three implications of the filter; with
\* include_private false it holds no private entry.
C3_FilterSubsequence ==
    /\ Elements(fetched) = EntriesUpTo(Len(requested))
    /\ InListingOrder(fetched)
    /\ Elements(repositories) = {e \in Elements(fetched) : Kept(e)}
    /\ InListingOrder(repositories)
    /\ ~include.private => \A e \in Elements(repositories) : ~e.private

\* C3's case: get_repositories has returned from more than one page without
\* include_private; a private archived entry was fetched and left out while
\* other entries were kept.
C3_Witness ==
    /\ pc = "listed"
    /\ ~include.private /\ include.archived
    /\ Len(fetched) > per_page
    /\ \E e \in Elements(fetched) : e.private /\ e.archived
    /\ repositories # <<>>
    /\ Len(repositories) < Len(fetched)

\* C4: the listing pages are requested as 1, 2, 3, ..., each once; page p+1
\* only after page p came back with status 200 and per_page entries; once
\* get_repositories has returned, the last page requested was short, empty
\* or an error.
C4_Pagination ==
    /\ \A k \in 1..Len(requested) : requested[k] = k
    /\ \A k \in 2..Len(requested) :
         PageOk(k - 1) /\ Len(ServerPage(k - 1).data) = per_page
    /\ pc = "listed" =>
         /\ requested # <<>>
         /\ \/ PageError(Len(requested))
            \/ PageOk(Len(requested)) /\ Len(ServerPage(Len(requested)).data) < per_page

\* C4's case: the function has returned after a second page that is
\* non-empty and shorter than per_page.
C4_Witness ==
    /\ pc = "listed"
    /\ Len(requested) = 2
    /\ PageOk(2)
    /\ ServerPage(2).data # <<>>
    /\ Len(ServerPage(2).data) < per_page

\* C5: once a listing page p has been answered with a non-200 status,
\* get_repositories has returned without an exception, page p was requested
\* once and no later page was, and the result is what pages 1..p-1 left.
C5_ListErrorStops ==
    (requested # <<>> /\ PageError(Len(requested))) =>
        /\ pc = "listed"
        /\ error = ""
        /\ \A k \in 1..Len(requested) : requested[k] = k
        /\ Elements(repositories) = {e \in EntriesUpTo(Len(requested) - 1) : Kept(e)}
        /\ InListingOrder(repositories)

\* C5's case: the second page failed after a first page whose entries were
\* partly kept.
C5_Witness ==
    /\ pc = "listed"
    /\ Len(requested) = 2
    /\ PageError(2)
    /\ repositories # <<>>
    /\ Len(repositories) < per_page

---------------------------------------------------------------------------
(* get_codeowners_content and analyze_repositories. *)

\* The answers of the current repository's locations.
Answer(k) == TreeOf(repositories[i])[k]

\* Location k answers 200 with a non-empty content field.
Succeeds(k) ==
    ~Answer(k).raises /\ Answer(k).status = 200 /\ Answer(k).content # <<>>

\* The first location that succeeds, 0 when none does.
Winner ==
    IF \E k \in 1..Len(Locations) : Succeeds(k)
    THEN CHOOSE k \in 1..Len(Locations) :
             Succeeds(k) /\ \A j \in 1..(k - 1) : ~Succeeds(j)
    ELSE 0

\* The locator has returned what the first succeeding location holds, and
\* has probed the locations in order up to it and none after it.
LocatorReturnsFirst ==
    pc = "assemble" =>
        IF Winner = 0
        THEN found = <<None, None>> /\ probes = Locations
        ELSE /\ found = <<Some(utf8decode(b64decode(Answer(Winner).content))),
                          Some(Locations[Winner])>>
             /\ probes = SubSeq(Locations, 1, Winner)

\* C1: the locator probes the locations in order, returns the first one
\* that answers 200 with content and probes none after it, returns
\* (None, None) when none does, and skips a location whose request fails,
\* by an error status or otherwise.
C1_LocatorSkipsFailures ==
    /\ LocatorReturnsFirst
    /\ Locations = <<".github/CODEOWNERS", "CODEOWNERS", "docs/CODEOWNERS">>
    /\ error # "contents"

\* C6: a record without a CODEOWNERS file has no location and the default
\* owner.
C6_NoFileRecord ==
    \A k \in 1..Len(results) :
        ~results[k].has_codeowner_file =>
            /\ results[k].codeowners_file_location = None
            /\ results[k].primary_owner = NoCodeownersFile

\* C6's case: the locator returned a location with content that decodes to
\* the empty text, and the record says there is no file.
C6_Witness ==
    /\ results # <<>>
    /\ TreeOf(repositories[1])[1] = FileOk(PayloadBlank)
    /\ ~results[1].has_codeowner_file

---------------------------------------------------------------------------
(* The batch. *)

\* C7: no outcome of the quota query ends the batch: the guard returns to
\* its caller and the call after it is made.
C7_GuardNeverFails == error # "rate_limit"

\* C8: after an interrupt no output file exists, and the file never holds
\* a row of a repository whose record is not complete.
C8_NoFileAfterInterrupt ==
    /\ pc = "cancelled" => csvfile = None
    /\ csvfile # None =>
         \A k \in 2..Len(csvfile[1]) : csvfile[1][k] = Row(results[k - 1])

\* C9: with --archived among valid flags, every archived repository the
\* listing returned is in the result of get_repositories, and has its row
\* in the finished report.
C9_ArchivedIncluded ==
    (ArgsValid(args) /\ args.archived /\ pc # "main") =>
        /\ \A e \in Elements(fetched) : e.archived => e \in Elements(repositories)
        /\ pc = "done" =>
             \A e \in Elements(fetched) : e.archived =>
                 \E k \in 2..Len(csvfile[1]) : csvfile[1][k][2] = e.name

\* The positions 50, 100, 150, ...
Fiftieth(n) == \E m \in 1..n : n = 50 * m

\* C10: in get_repositories the guard and the page fetch alternate, the
\* guard first; in the loop of analyze_repositories the guard has been
\* called, before any probe of the repository, for the positions that are
\* multiples of 50 and for no other.
C10_GuardCalls ==
    /\ \A k \in 1..Len(calls) :
         calls[k] = IF k % 2 = 1 THEN "rate_limit" ELSE "repos"
    /\ \A g \in guardedAt : Fiftieth(g[1]) /\ g[2] = 0 /\ g[1] <= i
    /\ \A n \in 1..Len(results) : Fiftieth(n) => <<n, 0>> \in guardedAt
    /\ (probes # <<>> /\ Fiftieth(i)) => <<i, 0>> \in guardedAt
    /\ Cardinality(guardedAt) <= Len(repositories) \div 50

\* C10's case: a batch of at least 100 repositories has finished, with two
\* guard calls in the loop and two pages fetched.
C10_Witness ==
    /\ pc = "done"
    /\ Len(calls) = 4
    /\ {<<50, 0>>, <<100, 0>>} \subseteq guardedAt

=============================================================================
